---- MODULE Spec2Model ----
(***************************************************************************)
(* git-ai (wrapper.py): a natural-language instruction is sent to a remote *)
(* completion service, the reply is decoded as a list of git commands, the *)
(* user confirms, and the commands are run as subprocesses.  The entry     *)
(* "__auto_commit__" runs the auto-commit flow instead of a subprocess.    *)
(*                                                                         *)
(* Python strings are tuples of one-character strings, so that strip,      *)
(* split, startswith, "in" and the f-string of get_git_diff_summary are    *)
(* computed character by character.  A decoded JSON value is a record      *)
(* [t, v]: t is its Python type and v its content.                         *)
(***************************************************************************)
EXTENDS Integers, Sequences, FiniteSets, TLC

VARIABLES
  pc,            \* position of the program
  nl_command,    \* main: the tuple of command-line arguments
  response,      \* ask_llm: what the remote call did (raised, or the text it returned)
  commands,      \* main: the value ask_llm returned
  answer,        \* main: what click.confirm returned ("none" before the prompt)
  prompts,       \* number of confirmation prompts shown
  idx,           \* run_commands: 1-based position of the for loop
  phase,         \* caller of the shared helpers: "preview" (main) or "run" (perform_auto_commit)
  status_stdout, \* get_git_diff_summary: status_result.stdout
  diff,          \* the caller's local diff
  message,       \* perform_auto_commit: the local message
  trace,         \* subprocess.run and generate_commit_message calls, in order
  out,           \* messages written with click or with logger.warning/error, in order
  exc            \* the exception that ended the process ("none" if none)

vars == <<pc, nl_command, response, commands, answer, prompts, idx, phase,
          status_stdout, diff, message, trace, out, exc>>

(***************************************************************************)
(* Bounds and the inputs the environment can supply.                       *)
(***************************************************************************)
\* Longest command list the remote service returns.
MaxCmds == 2

\* ---------------------------------------------------------------- strings
Whitespace == {" ", "\n", "\t"}

RECURSIVE lstrip(_)
lstrip(s) == IF s # <<>> /\ Head(s) \in Whitespace THEN lstrip(Tail(s)) ELSE s

RECURSIVE rstrip(_)
rstrip(s) ==
  IF s # <<>> /\ s[Len(s)] \in Whitespace THEN rstrip(SubSeq(s, 1, Len(s) - 1)) ELSE s

\* str.strip()
strip(s) == rstrip(lstrip(s))

\* str.startswith(prefix)
startswith(s, prefix) ==
  Len(prefix) <= Len(s) /\ SubSeq(s, 1, Len(prefix)) = prefix

\* sub in s, for two strings
IsSubstring(sub, s) ==
  \E i \in 0..Len(s) : i + Len(sub) <= Len(s) /\ SubSeq(s, i + 1, i + Len(sub)) = sub

\* str.split(): the maximal runs of non-whitespace characters, in order
RECURSIVE SplitFrom(_, _, _)
SplitFrom(s, word, acc) ==
  IF s = <<>> THEN (IF word = <<>> THEN acc ELSE Append(acc, word))
  ELSE IF Head(s) \in Whitespace
       THEN SplitFrom(Tail(s), <<>>, IF word = <<>> THEN acc ELSE Append(acc, word))
       ELSE SplitFrom(Tail(s), Append(word, Head(s)), acc)

split(s) == SplitFrom(s, <<>>, <<>>)

\* ------------------------------------------------------- Python values
PyStr(s) == [t |-> "str", v |-> s]
PyNum(s) == [t |-> "num", v |-> s]
PyList(items) == [t |-> "list", v |-> items]
PyDict(keys) == [t |-> "dict", v |-> keys]
PyNone == [t |-> "none", v |-> <<>>]

\* bool(x), as "if not commands" uses it
Truthy(x) ==
  CASE x.t = "none" -> FALSE
    [] x.t = "num" -> x.v # <<"0">>
    [] OTHER -> Len(x.v) > 0

\* Whether "s in x" raises TypeError (an int is not iterable).
InRaises(x) == x.t \in {"num"}

\* s in x, for a string s: element of a list, key of a dict, substring of a string
Contains(s, x) ==
  CASE x.t = "list" -> \E i \in 1..Len(x.v) : x.v[i].t = "str" /\ x.v[i].v = s
    [] x.t = "dict" -> \E i \in 1..Len(x.v) : x.v[i] = s
    [] x.t = "str" -> IsSubstring(s, x.v)
    [] OTHER -> FALSE

\* The values "for cmd in commands" yields: the items of a list, the keys of a
\* dict, the characters of a string.
Entries(x) ==
  CASE x.t = "list" -> x.v
    [] x.t = "dict" -> [i \in 1..Len(x.v) |-> PyStr(x.v[i])]
    [] x.t = "str" -> [i \in 1..Len(x.v) |-> PyStr(<<x.v[i]>>)]
    [] OTHER -> <<>>

\* A list whose items are all strings: what the annotation list[str] promises.
IsListOfStrings(x) ==
  x.t = "list" /\ \A i \in 1..Len(x.v) : x.v[i].t = "str"

\* ------------------------------------------------------ program literals
AUTO_COMMIT == <<"_","_","a","u","t","o","_","c","o","m","m","i","t","_","_">>

GIT_ADD == << <<"g","i","t">>, <<"a","d","d">>, <<".">> >>
GIT_DIFF_NAME_STATUS == << <<"g","i","t">>, <<"d","i","f","f">>, <<"-","-","c","a","c","h","e","d">>, <<"-","-","n","a","m","e","-","s","t","a","t","u","s">> >>
GIT_DIFF_CACHED == << <<"g","i","t">>, <<"d","i","f","f">>, <<"-","-","c","a","c","h","e","d">> >>
GitCommit(m) == << <<"g","i","t">>, <<"c","o","m","m","i","t">>, <<"-","m">>, m >>

\* f"Files changed:\n{status}\n\nDetails:\n{details}"
CombinedDiff(status, details) ==
  <<"F","i","l","e","s"," ","c","h","a","n","g","e","d",":","\n">> \o strip(status) \o <<"\n","\n","D","e","t","a","i","l","s",":","\n">> \o strip(details)

\* The literal perform_auto_commit and main compare the diff with.
EMPTY_DIFF_LITERAL == <<"F","i","l","e","s"," ","c","h","a","n","g","e","d",":","\n","\n","D","e","t","a","i","l","s",":","\n">>

\* f"Could not retrieve diff: {e}"; str(e) is shortened to its last words.
CouldNotRetrieve == <<"C","o","u","l","d"," ","n","o","t"," ","r","e","t","r","i","e","v","e"," ","d","i","f","f">>
DiffErrorMsg == CouldNotRetrieve \o <<":"," ","n","o","n","-","z","e","r","o"," ","e","x","i","t"," ","s","t","a","t","u","s"," ","1",".">>

ConventionalPrefixes ==
  << <<"f","e","a","t">>, <<"f","i","x">>, <<"c","h","o","r","e">>, <<"d","o","c","s">>, <<"r","e","f","a","c","t","o","r">>, <<"t","e","s","t">>,
     <<"p","e","r","f">>, <<"c","i">>, <<"b","u","i","l","d">>, <<"s","t","y","l","e">> >>

FALLBACK_NO_DIFF == <<"c","h","o","r","e",":"," ","u","p","d","a","t","e"," ","f","i","l","e","s">>
FALLBACK_FORMAT == <<"c","h","o","r","e",":"," ","u","p","d","a","t","e"," ","f","i","l","e","s"," ","b","a","s","e","d"," ","o","n"," ","r","e","c","e","n","t"," ","c","h","a","n","g","e","s">>
FALLBACK_ERROR == <<"c","h","o","r","e",":"," ","u","p","d","a","t","e"," ","p","r","o","j","e","c","t"," ","f","i","l","e","s">>

\* ---------------------------------------------------- environment inputs
\* Command-line argument tuples.
NlCommands == { <<>>, <<"save", "my", "work">> }

\* Items the remote service may put in its JSON array.
CmdAlphabet ==
  << PyStr(<<"g","i","t"," "," ","s","t","a","t","u","s"," ">>), PyStr(AUTO_COMMIT), PyNum(<<"7">>), PyStr(<<" ">>) >>

\* Decoded values that are not arrays.
NonArrayValues ==
  << PyStr(<<"g"," ","l">>), PyNum(<<"7">>), PyNum(<<"0">>),
     PyDict(<< <<"g","i","t"," ","s","t","a","t","u","s">> >>), PyDict(<<>>), PyNone >>

\* Outcomes of a subprocess.run(..., check=True): exit 0, a non-zero exit
\* (CalledProcessError), or the executable cannot be started (OSError).
ReturnCodes == {"ok", "nonzero", "oserror"}

\* What the two git diff calls may print: "git diff --cached" prints nothing
\* exactly when "git diff --cached --name-status" printed nothing.
StatusOutputs == { <<>>, <<"M","\t","a",".","p","y","\n">> }
DiffOutputs == { <<>>, <<"+","x","\n">> }

\* What the remote call of generate_commit_message may do.
CommitReplies ==
  { [kind |-> "raise", text |-> <<>>],
    [kind |-> "text", text |-> <<" ","f","e","a","t",":"," ","a","d","d"," ","x">>],
    [kind |-> "text", text |-> <<"A","d","d"," ","x">>],
    [kind |-> "text", text |-> <<"w","i","p",":"," ","f","i","x"," ","x">>] }

(***************************************************************************)
(* Events and reports.                                                     *)
(***************************************************************************)
\* Whether the program is inside run_commands (else it is in main's preview).
InRunCommands == pc = "run_commands" \/ phase = "run"

\* One subprocess.run call: its argument vector and how it ended.  entry is
\* the position in the command list being run (0 in main's preview).
Subprocess(argv, rc) ==
  [ev |-> "subprocess", phase |-> IF InRunCommands THEN "run" ELSE "preview",
   entry |-> IF InRunCommands THEN idx ELSE 0,
   argv |-> argv, rc |-> rc, text |-> <<>>, msg |-> <<>>]

\* One generate_commit_message call: rc is "nocall" when it returned before the
\* remote call, "raise" when the remote call raised, "text" when it returned
\* text (kept in text); msg is the message the function returned.
Generate(reply_kind, text, returned) ==
  [ev |-> "generate", phase |-> IF InRunCommands THEN "run" ELSE "preview",
   entry |-> IF InRunCommands THEN idx ELSE 0,
   argv |-> <<>>, rc |-> reply_kind, text |-> text, msg |-> returned]

\* One message to the user or the log.
Report(text) == [msg |-> text, entry |-> IF InRunCommands THEN idx ELSE 0]

(***************************************************************************)
(* ask_llm                                                                 *)
(***************************************************************************)
\* The remote call raises, or returns text that json.loads rejects, or text
\* that json.loads decodes to val.
LlmReply(kind, val) == [kind |-> kind, val |-> val]

\* Variant: the except branch falls back to a default command instead of [].
ask_llm_default(reply) ==
  IF reply.kind = "json" THEN reply.val ELSE PyList(<< PyStr(<<"g","i","t"," ","s","t","a","t","u","s">>) >>)

\* The value ask_llm returns: whatever json.loads decoded, or [] from the
\* except branch.
ask_llm(reply) ==
  IF reply.kind = "json" THEN reply.val ELSE PyList(<<>>)

(***************************************************************************)
(* generate_commit_message                                                 *)
(***************************************************************************)
HasConventionalPrefix(m) ==
  \E i \in 1..Len(ConventionalPrefixes) : startswith(m, ConventionalPrefixes[i])

\* Whether the function returns before the remote call.
NoMeaningfulDiff(d) == d = <<>> \/ startswith(d, CouldNotRetrieve)

\* Variant: the reply is returned without the prefix validation of line 142.
generate_commit_message_unchecked(d, reply) ==
  IF NoMeaningfulDiff(d) THEN FALLBACK_NO_DIFF
  ELSE IF reply.kind = "raise" THEN FALLBACK_ERROR
  ELSE strip(reply.text)

generate_commit_message(d, reply) ==
  IF NoMeaningfulDiff(d) THEN FALLBACK_NO_DIFF
  ELSE IF reply.kind = "raise" THEN FALLBACK_ERROR
  ELSE LET m == strip(reply.text)
       IN IF HasConventionalPrefix(m) THEN m ELSE FALLBACK_FORMAT

\* The event a call leaves in the trace.
GenerateEvent(d, reply) ==
  Generate(IF NoMeaningfulDiff(d) THEN "nocall" ELSE reply.kind,
           IF NoMeaningfulDiff(d) THEN <<>> ELSE reply.text,
           generate_commit_message(d, reply))

\* What the call reports (click.secho of the error, logger.warning).
GenerateReports(d, reply) ==
  IF NoMeaningfulDiff(d) THEN << Report("No meaningful diff available for commit message generation") >>
  ELSE IF reply.kind = "raise" THEN << Report("Error generating commit message") >>
  ELSE IF ~HasConventionalPrefix(strip(reply.text))
       THEN << Report("Generated message doesn't follow conventional format, applying fallback") >>
       ELSE <<>>

(***************************************************************************)
(* Init                                                                    *)
(***************************************************************************)
Init ==
  /\ pc = "main"
  /\ nl_command \in NlCommands
  /\ response = LlmReply("none", PyNone)
  /\ commands = PyNone
  /\ answer = "none"
  /\ prompts = 0
  /\ idx = 0
  /\ phase = "main"
  /\ status_stdout = <<>>
  /\ diff = <<>>
  /\ message = <<>>
  /\ trace = <<>>
  /\ out = <<>>
  /\ exc = "none"

(***************************************************************************)
(* main, up to the confirmation prompt                                     *)
(***************************************************************************)
MainStart ==
  /\ pc = "main"
  /\ IF nl_command = <<>>
     THEN /\ out' = Append(out, Report("Please provide a natural language Git command."))
          /\ pc' = "done"
     ELSE /\ pc' = "ask_llm"
          /\ out' = out
  /\ UNCHANGED <<nl_command, response, commands, answer, prompts, idx, phase,
                 status_stdout, diff, message, trace, exc>>

AskLlmWith(reply) ==
  /\ response' = reply
  /\ commands' = ask_llm(reply)
  /\ out' = IF reply.kind = "json" THEN out ELSE Append(out, Report("Error from OpenAI"))
  /\ pc' = "check_commands"
  /\ UNCHANGED <<nl_command, answer, prompts, idx, phase, status_stdout, diff,
                 message, trace, exc>>

AskLlm ==
  /\ pc = "ask_llm"
  /\ \/ AskLlmWith(LlmReply("raise", PyNone))
     \/ AskLlmWith(LlmReply("notjson", PyNone))
     \/ \E n \in 0..MaxCmds : \E f \in [1..n -> DOMAIN CmdAlphabet] :
          AskLlmWith(LlmReply("json", PyList([i \in 1..n |-> CmdAlphabet[f[i]]])))
     \/ \E i \in DOMAIN NonArrayValues :
          AskLlmWith(LlmReply("json", NonArrayValues[i]))

CheckCommands ==
  /\ pc = "check_commands"
  /\ IF ~Truthy(commands)
     THEN /\ out' = Append(out, Report("No valid git commands could be generated."))
          /\ pc' = "done"
          /\ UNCHANGED <<phase, exc>>
     ELSE IF InRaises(commands)
     THEN /\ pc' = "crashed"
          /\ exc' = "TypeError"
          /\ UNCHANGED <<phase, out>>
     ELSE IF Contains(AUTO_COMMIT, commands)
     THEN /\ pc' = "preview_add"
          /\ phase' = "preview"
          /\ UNCHANGED <<out, exc>>
     ELSE /\ pc' = "confirm"
          /\ UNCHANGED <<phase, out, exc>>
  /\ UNCHANGED <<nl_command, response, commands, answer, prompts, idx,
                 status_stdout, diff, message, trace>>

\* main's "except Exception" around the preview: log and go on to the prompt.
PreviewFailed ==
  /\ out' = Append(out, Report("Error pre-generating commit message"))
  /\ pc' = "confirm"
  /\ phase' = "main"
  /\ status_stdout' = <<>>
  /\ diff' = <<>>

PreviewStage ==
  /\ pc = "preview_add"
  /\ \E rc \in ReturnCodes :
       /\ trace' = Append(trace, Subprocess(GIT_ADD, rc))
       /\ IF rc = "ok"
          THEN /\ pc' = "diff_name_status"
               /\ UNCHANGED <<out, phase, status_stdout, diff>>
          ELSE PreviewFailed
  /\ UNCHANGED <<nl_command, response, commands, answer, prompts, idx, message, exc>>

(***************************************************************************)
(* get_git_diff_summary, called by main's preview and by the auto-commit   *)
(***************************************************************************)
\* Where the helper returns to.
ReturnTo == IF phase = "preview" THEN "preview_message" ELSE "auto_commit_message"

\* An exception other than CalledProcessError leaves the helper: main's
\* preview catches it, perform_auto_commit and run_commands do not.
DiffRaises ==
  IF phase = "preview"
  THEN PreviewFailed /\ UNCHANGED <<exc, idx, message>>
  ELSE /\ pc' = "crashed"
       /\ exc' = "OSError"
       /\ UNCHANGED <<out, phase, status_stdout, diff, idx, message>>

\* except subprocess.CalledProcessError: the helper returns the error text.
DiffFails ==
  /\ diff' = DiffErrorMsg
  /\ out' = Append(out, Report("Could not retrieve diff"))
  /\ pc' = ReturnTo
  /\ status_stdout' = <<>>
  /\ UNCHANGED <<phase, exc, idx, message>>

DiffNameStatus ==
  /\ pc = "diff_name_status"
  /\ \E rc \in ReturnCodes : \E so \in StatusOutputs :
       /\ rc # "ok" => so = <<>>
       /\ trace' = Append(trace, Subprocess(GIT_DIFF_NAME_STATUS, rc))
       /\ CASE rc = "ok" ->
                 /\ status_stdout' = so
                 /\ pc' = "diff_cached"
                 /\ UNCHANGED <<out, phase, diff, exc, idx, message>>
            [] rc = "nonzero" -> DiffFails
            [] rc = "oserror" -> DiffRaises
  /\ UNCHANGED <<nl_command, response, commands, answer, prompts>>

DiffCached ==
  /\ pc = "diff_cached"
  /\ \E rc \in ReturnCodes : \E so \in DiffOutputs :
       /\ rc # "ok" => so = <<>>
       /\ rc = "ok" => (so = <<>> <=> status_stdout = <<>>)
       /\ trace' = Append(trace, Subprocess(GIT_DIFF_CACHED, rc))
       /\ CASE rc = "ok" ->
                 /\ diff' = CombinedDiff(status_stdout, so)
                 /\ status_stdout' = <<>>
                 /\ pc' = ReturnTo
                 /\ UNCHANGED <<out, phase, exc, idx, message>>
            [] rc = "nonzero" -> DiffFails
            [] rc = "oserror" -> DiffRaises
  /\ UNCHANGED <<nl_command, response, commands, answer, prompts>>

\* main, lines 235-239: generate and show the message, or say there is nothing.
PreviewMessage ==
  /\ pc = "preview_message"
  /\ IF diff # <<>> /\ diff # EMPTY_DIFF_LITERAL
     THEN \E reply \in CommitReplies :
            /\ NoMeaningfulDiff(diff) => reply.kind = "raise"
            /\ trace' = Append(trace, GenerateEvent(diff, reply))
            /\ out' = out \o GenerateReports(diff, reply)
                          \o << Report("Will commit with message") >>
     ELSE /\ out' = Append(out, Report("No changes detected to commit."))
          /\ trace' = trace
  /\ pc' = "confirm"
  /\ phase' = "main"
  /\ diff' = <<>>
  /\ UNCHANGED <<nl_command, response, commands, answer, prompts, idx,
                 status_stdout, message, exc>>

(***************************************************************************)
(* main: the confirmation prompt                                           *)
(***************************************************************************)
\* Variant: run_commands is called whatever the answer is.
AfterConfirm_always(a) == "run_commands"

\* if click.confirm(...): run_commands(commands)  else: "Aborted."
AfterConfirm(a) == IF a = "yes" THEN "run_commands" ELSE "done"

Confirm ==
  /\ pc = "confirm"
  /\ \E a \in {"yes", "no"} :
       /\ answer' = a
       /\ prompts' = prompts + 1
       /\ pc' = AfterConfirm(a)
       /\ idx' = IF AfterConfirm(a) = "run_commands" THEN 1 ELSE idx
       /\ out' = IF a = "yes" THEN out ELSE Append(out, Report("Aborted."))
  /\ UNCHANGED <<nl_command, response, commands, phase, status_stdout, diff,
                 message, trace, exc>>

(***************************************************************************)
(* run_commands                                                            *)
(***************************************************************************)
\* Variant: the comparison with the sentinel never matches.
IsAutoCommit_never(cmd) == FALSE

\* cmd == "__auto_commit__"
IsAutoCommit(cmd) == cmd.t = "str" /\ cmd.v = AUTO_COMMIT

\* The entry the for loop is at.
CurrentCmd == Entries(commands)[idx]

\* The for loop is exhausted: run_commands and main return.
RunCommandsEnd ==
  /\ pc = "run_commands"
  /\ idx > Len(Entries(commands))
  /\ pc' = "done"
  /\ UNCHANGED <<nl_command, response, commands, answer, prompts, idx, phase,
                 status_stdout, diff, message, trace, out, exc>>

\* The sentinel: perform_auto_commit() is called, then "continue".
RunAutoCommit ==
  /\ pc = "run_commands"
  /\ idx <= Len(Entries(commands))
  /\ IsAutoCommit(CurrentCmd)
  /\ pc' = "auto_commit_add"
  /\ phase' = "run"
  /\ UNCHANGED <<nl_command, response, commands, answer, prompts, idx,
                 status_stdout, diff, message, trace, out, exc>>

\* Variant: the loop ends at the first command that exits non-zero.
AfterLiteral_break(rc) ==
  CASE rc = "ok" -> "run_commands"
    [] rc = "nonzero" -> "done"
    [] OTHER -> "crashed"

\* Where the loop goes after subprocess.run of a literal entry: only
\* CalledProcessError is caught.
AfterLiteral(rc) ==
  CASE rc = "ok" -> "run_commands"
    [] rc = "nonzero" -> "run_commands"
    [] OTHER -> "crashed"

\* Any other entry: subprocess.run(cmd.split(), check=True, ...).
RunLiteral ==
  /\ pc = "run_commands"
  /\ idx <= Len(Entries(commands))
  /\ ~IsAutoCommit(CurrentCmd)
  /\ IF CurrentCmd.t # "str"
     THEN \* an int has no split()
          /\ pc' = "crashed"
          /\ exc' = "AttributeError"
          /\ out' = Append(out, Report("Running"))
          /\ UNCHANGED <<idx, trace>>
     ELSE IF split(CurrentCmd.v) = <<>>
     THEN \* subprocess.run([]) raises IndexError
          /\ pc' = "crashed"
          /\ exc' = "IndexError"
          /\ out' = Append(out, Report("Running"))
          /\ UNCHANGED <<idx, trace>>
     ELSE \E rc \in ReturnCodes :
            /\ trace' = Append(trace, Subprocess(split(CurrentCmd.v), rc))
            /\ pc' = AfterLiteral(rc)
            /\ idx' = IF AfterLiteral(rc) = "run_commands" THEN idx + 1 ELSE idx
            /\ exc' = IF AfterLiteral(rc) = "crashed" THEN "OSError" ELSE exc
            /\ out' = IF rc = "nonzero"
                      THEN out \o << Report("Running"), Report("Command failed") >>
                      ELSE Append(out, Report("Running"))
  /\ UNCHANGED <<nl_command, response, commands, answer, prompts, phase,
                 status_stdout, diff, message>>

(***************************************************************************)
(* perform_auto_commit                                                     *)
(***************************************************************************)
\* perform_auto_commit returns: the loop goes on with the next entry.
AutoCommitReturns ==
  /\ pc' = "run_commands"
  /\ idx' = idx + 1
  /\ phase' = "main"
  /\ diff' = <<>>
  /\ message' = <<>>
  /\ exc' = exc

\* An exception other than CalledProcessError leaves perform_auto_commit and
\* run_commands.
AutoCommitRaises ==
  /\ pc' = "crashed"
  /\ exc' = "OSError"
  /\ UNCHANGED <<idx, phase, diff, message, out>>

AutoCommitStage ==
  /\ pc = "auto_commit_add"
  /\ \E rc \in ReturnCodes :
       /\ trace' = Append(trace, Subprocess(GIT_ADD, rc))
       /\ CASE rc = "ok" ->
                 /\ pc' = "diff_name_status"
                 /\ UNCHANGED <<idx, phase, diff, message, out, exc>>
            [] rc = "nonzero" ->
                 /\ out' = Append(out, Report("Commit failed"))
                 /\ AutoCommitReturns
            [] rc = "oserror" -> AutoCommitRaises
  /\ UNCHANGED <<nl_command, response, commands, answer, prompts, status_stdout>>

\* Lines 180-188: return when the diff is the empty literal, else generate.
AutoCommitMessage ==
  /\ pc = "auto_commit_message"
  /\ IF diff = <<>> \/ diff = EMPTY_DIFF_LITERAL
     THEN /\ out' = Append(out, Report("No staged changes to commit."))
          /\ trace' = trace
          /\ AutoCommitReturns
     ELSE \E reply \in CommitReplies :
            /\ NoMeaningfulDiff(diff) => reply.kind = "raise"
            /\ message' = generate_commit_message(diff, reply)
            /\ trace' = Append(trace, GenerateEvent(diff, reply))
            /\ out' = out \o GenerateReports(diff, reply)
                          \o << Report("Generated commit message") >>
            /\ pc' = "auto_commit_commit"
            /\ UNCHANGED <<idx, phase, diff, exc>>
  /\ UNCHANGED <<nl_command, response, commands, answer, prompts, status_stdout>>

\* Variant: the commit is made with the message main showed before the prompt.
CommitArgv_preview ==
  LET shown == SelectSeq(trace, LAMBDA e : e.ev = "generate" /\ e.phase = "preview")
  IN GitCommit(IF shown = <<>> THEN message ELSE shown[1].msg)

\* ["git", "commit", "-m", message]
CommitArgv == GitCommit(message)

AutoCommitCommit ==
  /\ pc = "auto_commit_commit"
  /\ \E rc \in ReturnCodes :
       /\ trace' = Append(trace, Subprocess(CommitArgv, rc))
       /\ CASE rc = "ok" ->
                 /\ out' = Append(out, Report("Successfully committed changes"))
                 /\ AutoCommitReturns
            [] rc = "nonzero" ->
                 /\ out' = Append(out, Report("Commit failed"))
                 /\ AutoCommitReturns
            [] rc = "oserror" -> AutoCommitRaises
  /\ UNCHANGED <<nl_command, response, commands, answer, prompts, status_stdout>>

(***************************************************************************)
(* The program                                                             *)
(***************************************************************************)
Next ==
  \/ MainStart
  \/ AskLlm
  \/ CheckCommands
  \/ PreviewStage
  \/ DiffNameStatus
  \/ DiffCached
  \/ PreviewMessage
  \/ Confirm
  \/ RunCommandsEnd
  \/ RunAutoCommit
  \/ RunLiteral
  \/ AutoCommitStage
  \/ AutoCommitMessage
  \/ AutoCommitCommit

Spec == Init /\ [][Next]_vars

(***************************************************************************)
(* Vocabulary of the properties                                            *)
(***************************************************************************)
Positions == 1..Len(trace)

IsSubprocess(e) == e.ev = "subprocess"
IsGenerate(e) == e.ev = "generate"
IsStage(e) == IsSubprocess(e) /\ e.argv = GIT_ADD
IsDiffNameStatus(e) == IsSubprocess(e) /\ e.argv = GIT_DIFF_NAME_STATUS
IsDiffCached(e) == IsSubprocess(e) /\ e.argv = GIT_DIFF_CACHED
IsCommit(e) ==
  /\ IsSubprocess(e)
  /\ Len(e.argv) = 4
  /\ \A a \in 1..3 : e.argv[a] = GitCommit(<<>>)[a]

\* The events of the run of list entry i, in order.
RunEvents(i) == SelectSeq(trace, LAMBDA e : e.phase = "run" /\ e.entry = i)

\* The string "__auto_commit__".
IsSentinelValue(x) == x.t = "str" /\ x.v = AUTO_COMMIT

\* The list entries that are the sentinel.
SentinelEntries ==
  {i \in 1..Len(Entries(commands)) : IsSentinelValue(Entries(commands)[i])}

Has(events, P(_)) == \E k \in 1..Len(events) : P(events[k])

Reported(text, i) == \E k \in 1..Len(out) : out[k].msg = text /\ out[k].entry = i

RemoteCallFailed == response.kind = "raise"

\* The reply was text, and it was not the JSON of an array of strings.
MalformedReply ==
  \/ response.kind = "notjson"
  \/ response.kind = "json" /\ ~IsListOfStrings(response.val)

ReturnedEmptyList == commands.t = "list" /\ Len(commands.v) = 0

(***************************************************************************)
(* C1                                                                      *)
(***************************************************************************)
\* C1: when the user declines the confirmation prompt, no subprocess has
\* been invoked in the whole run of main, whatever the command list holds.
C1_DeclineMeansNoSubprocess ==
  answer = "no" => \A k \in Positions : ~IsSubprocess(trace[k])

(***************************************************************************)
(* C2                                                                      *)
(***************************************************************************)
\* The diff get_git_diff_summary returns when both git diff calls succeed and
\* print nothing.
EmptyStagedDiff == CombinedDiff(<<>>, <<>>)

\* C2: in a run of perform_auto_commit in which stage-all succeeds and both
\* diff calls print nothing, the flow returns at its "No staged changes to
\* commit." check: with that diff in hand it is never past the check, and it
\* has called neither generate_commit_message nor git commit.
C2_EmptyDiffNoCommit ==
  (phase = "run" /\ diff = EmptyStagedDiff) =>
    /\ pc = "auto_commit_message"
    /\ ~Has(RunEvents(idx), IsGenerate)
    /\ ~Has(RunEvents(idx), IsCommit)

(***************************************************************************)
(* C3                                                                      *)
(***************************************************************************)
\* C3: when the remote call of ask_llm raises, ask_llm returns [], main
\* reports "No valid git commands could be generated." and returns, and the
\* run invokes no subprocess and shows no confirmation prompt.
C3_RemoteFailure ==
  RemoteCallFailed =>
    /\ ReturnedEmptyList
    /\ trace = <<>>
    /\ prompts = 0
    /\ answer = "none"
    /\ pc \in {"check_commands", "done"}
    /\ pc = "done" => /\ out # <<>>
                      /\ out[Len(out)].msg = "No valid git commands could be generated."

C3_Witness ==
  /\ RemoteCallFailed
  /\ pc = "done"
  /\ Reported("No valid git commands could be generated.", 0)

(***************************************************************************)
(* C4                                                                      *)
(***************************************************************************)
\* C4: for every malformed reply to the command prompt (text that is not
\* JSON, or JSON that is not an array of strings), ask_llm returns [].
C4_MalformedGivesEmptyList ==
  MalformedReply => ReturnedEmptyList

(***************************************************************************)
(* C5                                                                      *)
(***************************************************************************)
\* The commit of position k was made by the auto-commit flow after a
\* generate_commit_message call that received a line from the remote service.
CommitOfGeneratedLine(k) ==
  /\ k > 1
  /\ IsCommit(trace[k])
  /\ trace[k].phase = "run"
  /\ trace[k].entry \in SentinelEntries
  /\ IsGenerate(trace[k - 1])
  /\ trace[k - 1].rc = "text"

\* C5: the message given to git commit -m by the auto-commit flow is the
\* generated line when the line starts with an allowed prefix, and the
\* fallback literal when it starts with none; no message without an allowed
\* prefix reaches git commit.
C5_CommitMessagePrefix ==
  LET sentinels == SentinelEntries
  IN \A k \in Positions :
       (IsCommit(trace[k]) /\ trace[k].entry \in sentinels) =>
         /\ HasConventionalPrefix(trace[k].argv[4])
         /\ CommitOfGeneratedLine(k) =>
              LET line == strip(trace[k - 1].text)
              IN trace[k].argv[4] =
                   IF HasConventionalPrefix(line) THEN line ELSE FALLBACK_FORMAT

C5_Witness ==
  /\ \E k \in Positions :
       /\ CommitOfGeneratedLine(k)
       /\ ~HasConventionalPrefix(strip(trace[k - 1].text))
       /\ trace[k].argv[4] = FALLBACK_FORMAT
  /\ \E k \in Positions :
       /\ CommitOfGeneratedLine(k)
       /\ HasConventionalPrefix(strip(trace[k - 1].text))
       /\ trace[k].argv[4] = strip(trace[k - 1].text)
       /\ trace[k].argv[4] # trace[k - 1].text

(***************************************************************************)
(* C6                                                                      *)
(***************************************************************************)
SingleSentinel ==
  /\ commands.t = "list"
  /\ Len(commands.v) = 1
  /\ IsSentinelValue(commands.v[1])

\* The step an event of the auto-commit flow is.
StepOf(e) ==
  CASE IsGenerate(e) -> "generate"
    [] IsStage(e) -> "stage"
    [] IsDiffNameStatus(e) -> "name-status"
    [] IsDiffCached(e) -> "content"
    [] IsCommit(e) -> "commit"
    [] OTHER -> "other"

Steps(events) == [k \in 1..Len(events) |-> StepOf(events[k])]

IsPrefix(s, t) == Len(s) <= Len(t) /\ SubSeq(t, 1, Len(s)) = s

\* C6: for the confirmed list ["__auto_commit__"], run_commands stages all,
\* fetches the diff (name-status, then content), generates a message, and
\* commits with exactly that message, in this order and with no other
\* subprocess in between (the content diff is not fetched after a failed
\* name-status diff).
C6_AutoCommitOrder ==
  (SingleSentinel /\ answer = "yes") =>
    LET ev == RunEvents(1)
    IN /\ \A k \in Positions : trace[k].phase = "run" => trace[k].entry = 1
       /\ \/ IsPrefix(Steps(ev), <<"stage", "name-status", "content", "generate", "commit">>)
          \/ /\ IsPrefix(Steps(ev), <<"stage", "name-status", "generate", "commit">>)
             /\ Len(ev) > 2 => ev[2].rc = "nonzero"
       /\ \A k \in 1..Len(ev) :
            /\ StepOf(ev[k]) = "commit" => ev[k].argv = GitCommit(ev[k - 1].msg)
            /\ (k > 1 /\ StepOf(ev[k]) = "generate" /\ ev[k - 1].rc = "ok") =>
                 ev[k].rc # "nocall"
            /\ k > 1 => ev[k - 1].rc # "oserror"

C6_Witness ==
  /\ SingleSentinel
  /\ answer = "yes"
  /\ pc = "done"
  /\ Steps(RunEvents(1)) = <<"stage", "name-status", "content", "generate", "commit">>
  /\ RunEvents(1)[5].rc = "ok"
  /\ \E k \in Positions :
       /\ trace[k].phase = "preview"
       /\ IsGenerate(trace[k])
       /\ trace[k].msg # RunEvents(1)[4].msg

(***************************************************************************)
(* C7                                                                      *)
(***************************************************************************)
\* C7: run_commands processes the entries in list order, one after the
\* other, and a sentinel entry is never the command of a subprocess: its
\* subprocesses are those of the auto-commit flow.
C7_OrderAndSentinel ==
  LET entries == Entries(commands)
      sentinels == SentinelEntries
  IN /\ \A k \in Positions : trace[k].phase = "run" =>
          /\ trace[k].entry \in 1..Len(entries)
          /\ trace[k].entry <= idx
          /\ (k > 1 /\ trace[k - 1].phase = "run") => trace[k - 1].entry <= trace[k].entry
          /\ k < Len(trace) => trace[k + 1].phase = "run"
          /\ IsSubprocess(trace[k]) =>
               IF trace[k].entry \in sentinels
               THEN /\ StepOf(trace[k]) \in {"stage", "name-status", "content", "commit"}
                    /\ \A a \in 1..Len(trace[k].argv) : trace[k].argv[a] # AUTO_COMMIT
               ELSE /\ entries[trace[k].entry].t = "str"
                    /\ trace[k].argv = split(entries[trace[k].entry].v)
     /\ \A i \in 1..Len(entries) :
          \* every entry the loop has passed was run, none after the loop's
          \* position was, and a literal entry is run once
          LET ev == RunEvents(i)
          IN /\ (answer = "yes" /\ i < idx) => ev # <<>>
             /\ i > idx => ev = <<>>
             /\ (i \notin sentinels) => Len(ev) <= 1

C7_Witness ==
  /\ pc = "done"
  /\ commands.t = "list"
  /\ Len(commands.v) = 2
  /\ 1 \in SentinelEntries
  /\ 2 \notin SentinelEntries
  /\ Has(RunEvents(1), IsCommit)
  /\ Len(RunEvents(2)) = 1
  /\ Len(RunEvents(2)[1].argv) = 2

(***************************************************************************)
(* C8                                                                      *)
(***************************************************************************)
FailureReports == {"Command failed", "Commit failed", "Could not retrieve diff"}

\* Event k is a subprocess of run_commands that exited non-zero.
RunFailure(k) ==
  IsSubprocess(trace[k]) /\ trace[k].phase = "run" /\ trace[k].rc = "nonzero"

\* C8: a non-zero exit of a subprocess of run_commands (a literal entry or a
\* step of the auto-commit flow) is reported and does not stop the loop: the
\* program is still in that entry's flow or has moved on to the next entry,
\* and when main returns after a confirmation every entry has been run.
C8_FailureDoesNotStopLoop ==
  /\ \A k \in Positions : RunFailure(k) =>
       /\ \E t \in FailureReports : Reported(t, trace[k].entry)
       /\ \/ idx > trace[k].entry
          \/ /\ idx = trace[k].entry
             /\ pc \in {"auto_commit_message", "auto_commit_commit", "crashed"}
       /\ (k = Len(trace) /\ pc = "crashed") => idx > trace[k].entry
  /\ (pc = "done" /\ answer = "yes") =>
       /\ idx = Len(Entries(commands)) + 1
       /\ \A i \in 1..Len(Entries(commands)) : RunEvents(i) # <<>>

C8_Witness ==
  /\ pc = "done"
  /\ Len(Entries(commands)) = 2
  /\ \E k \in Positions : RunFailure(k) /\ trace[k].entry = 1 /\ 1 \notin SentinelEntries
  /\ RunEvents(2) # <<>>

(***************************************************************************)
(* C9                                                                      *)
(***************************************************************************)
\* C9: in a run of perform_auto_commit, a non-zero exit of stage-all or of
\* either diff call aborts the flow: git commit is not invoked in that run.
C9_FailedStepNoCommit ==
  \A i \in SentinelEntries :
    Has(RunEvents(i), LAMBDA e : /\ e.rc = "nonzero"
                                 /\ (IsStage(e) \/ IsDiffNameStatus(e) \/ IsDiffCached(e)))
      => ~Has(RunEvents(i), IsCommit)

(***************************************************************************)
(* C10                                                                     *)
(***************************************************************************)
\* C10: no literal command and no git commit is invoked unless the prompt
\* was shown for a non-empty command list and the user affirmed it; the
\* prompt is shown at most once, and only for a non-empty command list.
C10_NothingRunsUnconfirmed ==
  /\ prompts <= 1
  /\ prompts = 1 => (Truthy(commands) /\ Len(Entries(commands)) > 0)
  /\ \A k \in Positions :
       (IsSubprocess(trace[k]) /\ (IsCommit(trace[k]) \/ trace[k].phase = "run")) =>
         /\ answer = "yes"
         /\ prompts = 1
         /\ Len(Entries(commands)) > 0
  /\ \A k \in Positions :
       (IsSubprocess(trace[k]) /\ trace[k].phase # "run") =>
         StepOf(trace[k]) \in {"stage", "name-status", "content"}

C10_Witness ==
  /\ answer = "yes"
  /\ prompts = 1
  /\ \E k \in Positions : IsCommit(trace[k]) /\ trace[k].phase = "run"
  /\ \E k \in Positions :
       /\ IsSubprocess(trace[k])
       /\ trace[k].phase = "run"
       /\ trace[k].entry \notin SentinelEntries

====
